---- MODULE Spec2Model ----
(***************************************************************************)
(* A model of the cgo build helper (src/src/lib.rs): the Build             *)
(* configuration builder, the target translators goos_from_env and         *)
(* goarch_from_env, and Build::try_build with the go child process.        *)
(*                                                                         *)
(* Text is a sequence of tokens: a literal of the source is one token, a   *)
(* captured stream is one token per byte.  format!, push_str and write!    *)
(* are concatenation (\o).  Option<T> is a sequence of length 0 (None) or  *)
(* 1 (Some).                                                               *)
(***************************************************************************)
EXTENDS Integers, Sequences, FiniteSets, TLC

\* ------------------------------------------------------------------ bounds
MaxCalls == 4       \* setter calls recorded on one Build
MaxPkgs == 2        \* packages of a configuration try_build starts from
MaxStatus == 1      \* exit codes of the go process are 0..MaxStatus

\* ---------------------------------------------------------- Option<T>, text
None == <<>>
Some(v) == <<v>>
IsSome(o) == Len(o) = 1
Unwrap(o) == o[1]
Opt(S) == {None} \cup {Some(v) : v \in S}

Last(s) == s[Len(s)]

\* t occurs in s as a contiguous run of tokens
Contains(s, t) ==
    \E i \in 0..(Len(s) - Len(t)) : SubSeq(s, i + 1, i + Len(t)) = t

\* ------------------------------------------------------------ input values
BuildModes == {"CArchive", "CShared"}
DirValues == {<<"./tests/example">>, <<"go">>}
LdflagsValues == {<<"-s -w">>, <<"-w">>}
OutDirValues == {<<"/tmp/out">>, <<"/">>}
PackageValues == {<<"main.go">>, <<"pkg/example/main.go">>}
OutputValues == {<<"example">>, <<"integrationtest">>}
SpawnErrors == {<<"No such file or directory (os error 2)">>}

ArchKey == "CARGO_CFG_TARGET_ARCH"
OsKey == "CARGO_CFG_TARGET_OS"
OutDirKey == "OUT_DIR"
EnvKeys == {ArchKey, OsKey, OutDirKey}

\* the identifiers the two tables name, and two identifiers outside them
TableArchs == {"x86", "x86_64", "powerpc64", "aarch64", "mips", "mips64", "arm"}
TableOses == {"macos", "windows", "ios", "linux", "android", "freebsd",
              "dragonfly", "openbsd", "netbsd"}
OtherArchs == {"riscv64", "amd64"}
OtherOses == {"solaris", "darwin"}
EnvOutDirs == {<<"/target/out">>}

\* bytes a child writes; InvalidByte stands for a byte that is not valid UTF-8
Whitespace == {" ", "\n"}
InvalidByte == "0xFF"
ReplacementChar == "U+FFFD"
Streams == { <<>>, <<" ", "\n">>, <<"x">>, <<"\n", "x", " ", InvalidByte, "y", " ">> }
StatusCodes == 0..MaxStatus

RECURSIVE SeqsUpTo(_, _)
SeqsUpTo(S, n) ==
    IF n = 0 THEN {<<>>}
    ELSE LET shorter == SeqsUpTo(S, n - 1)
         IN  shorter \cup {Append(s, x) : s \in {t \in shorter : Len(t) = n - 1}, x \in S}

\* -------------------------------------------------------------------- state
VARIABLES
    build_mode, cargo_metadata, change_dir, ldflags, out_dir, packages, trimpath,
    calls,          \* history: the setter calls made on the Build, in call order
    env,            \* the process environment: key -> Option<text>
    windows,        \* cfg!(windows) of the build
    pc,             \* position of the try_build invocation
    output,         \* the output argument of try_build
    goos, goarch,   \* locals of try_build (Option<text>)
    resolved_dir,   \* local out_dir of try_build (Option<text>)
    reads,          \* history: environment keys read, in order
    cmd,            \* the process::Command handed to the OS: Option<[envs, args]>
    spawned,        \* number of go processes started
    build_output,   \* Option<[status, stdout, stderr]>
    emitted,        \* lines printed on stdout for cargo, in order
    result          \* [kind, message]: "None" while running, "Ok", or an ErrorKind

buildVars == <<build_mode, cargo_metadata, change_dir, ldflags, out_dir, packages, trimpath>>
runVars == <<env, windows, pc, output, goos, goarch, resolved_dir, reads, cmd, spawned,
             build_output, emitted, result>>
vars == <<buildVars, calls, runVars>>

ErrorKinds == {"EnvVarNotFound", "InvalidGOARCH", "InvalidGOOS", "ToolExecError"}
NoResult == [kind |-> "None", message |-> <<>>]
Ok == [kind |-> "Ok", message |-> <<>>]
Error_new(kind, message) == [kind |-> kind, message |-> message]
IsErr(r) == r.kind \in ErrorKinds

\* ------------------------------------------------------------ Build::new()
Build_new ==
    /\ build_mode = "CArchive"
    /\ cargo_metadata = TRUE
    /\ change_dir = None
    /\ ldflags = None
    /\ out_dir = None
    /\ packages = <<>>
    /\ trimpath = FALSE

\* the state of an invocation that has not started
NotStarted ==
    /\ pc = "configured"
    /\ output = <<>>
    /\ goos = None
    /\ goarch = None
    /\ resolved_dir = None
    /\ reads = <<>>
    /\ cmd = None
    /\ spawned = 0
    /\ build_output = None
    /\ emitted = <<>>
    /\ result = NoResult

Call(setter, arg) == [setter |-> setter, arg |-> arg]

\* ----------------------------------------------------------------- setters
CanSet == pc = "configured" /\ Len(calls) < MaxCalls

Set_build_mode(m) ==
    /\ CanSet
    /\ build_mode' = m
    /\ calls' = Append(calls, Call("build_mode", m))
    /\ UNCHANGED <<cargo_metadata, change_dir, ldflags, out_dir, packages, trimpath, runVars>>

Set_cargo_metadata(v) ==
    /\ CanSet
    /\ cargo_metadata' = v
    /\ calls' = Append(calls, Call("cargo_metadata", v))
    /\ UNCHANGED <<build_mode, change_dir, ldflags, out_dir, packages, trimpath, runVars>>

Set_change_dir(dir) ==
    /\ CanSet
    /\ change_dir' = Some(dir)
    /\ calls' = Append(calls, Call("change_dir", dir))
    /\ UNCHANGED <<build_mode, cargo_metadata, ldflags, out_dir, packages, trimpath, runVars>>

Set_ldflags(f) ==
    /\ CanSet
    /\ ldflags' = Some(f)
    /\ calls' = Append(calls, Call("ldflags", f))
    /\ UNCHANGED <<build_mode, cargo_metadata, change_dir, out_dir, packages, trimpath, runVars>>

Set_out_dir(dir) ==
    /\ CanSet
    /\ out_dir' = Some(dir)
    /\ calls' = Append(calls, Call("out_dir", dir))
    /\ UNCHANGED <<build_mode, cargo_metadata, change_dir, ldflags, packages, trimpath, runVars>>

\* package() inserting at the front of the list
Add_package_front(p) ==
    /\ CanSet
    /\ packages' = <<p>> \o packages
    /\ calls' = Append(calls, Call("package", p))
    /\ UNCHANGED <<build_mode, cargo_metadata, change_dir, ldflags, out_dir, trimpath, runVars>>

Add_package(p) ==
    /\ CanSet
    /\ packages' = Append(packages, p)
    /\ calls' = Append(calls, Call("package", p))
    /\ UNCHANGED <<build_mode, cargo_metadata, change_dir, ldflags, out_dir, trimpath, runVars>>

Set_trimpath(v) ==
    /\ CanSet
    /\ trimpath' = v
    /\ calls' = Append(calls, Call("trimpath", v))
    /\ UNCHANGED <<build_mode, cargo_metadata, change_dir, ldflags, out_dir, packages, runVars>>

DoBuildMode == \E m \in BuildModes : Set_build_mode(m)
DoCargoMetadata == \E v \in BOOLEAN : Set_cargo_metadata(v)
DoChangeDir == \E d \in DirValues : Set_change_dir(d)
DoLdflags == \E f \in LdflagsValues : Set_ldflags(f)
DoOutDir == \E d \in OutDirValues : Set_out_dir(d)
DoPackage == \E p \in PackageValues : Add_package(p)
DoTrimpath == \E v \in BOOLEAN : Set_trimpath(v)

\* ------------------------------------------------------------- get_env_var
ResOk(v) == [is_ok |-> TRUE, val |-> v, err |-> NoResult]
ResErr(e) == [is_ok |-> FALSE, val |-> <<>>, err |-> e]

get_env_var(key) ==
    IF IsSome(env[key])
    THEN ResOk(Unwrap(env[key]))
    ELSE ResErr(Error_new("EnvVarNotFound",
                          <<"could not find environment variable ", key>>))

\* ------------------------------------------------------- target translator
\* goarch_from_env without the aarch64 row
goarch_from_env_no_arm64 ==
    LET r == get_env_var(ArchKey)
        target_arch == r.val
    IN  IF ~r.is_ok THEN r
        ELSE CASE target_arch = <<"x86">> -> ResOk(<<"386">>)
               [] target_arch = <<"x86_64">> -> ResOk(<<"amd64">>)
               [] target_arch = <<"powerpc64">> -> ResOk(<<"ppc64">>)
               [] target_arch \in {<<"mips">>, <<"mips64">>, <<"arm">>, <<"aarch64">>}
                    -> ResOk(target_arch)
               [] OTHER -> ResErr(Error_new("InvalidGOARCH",
                                            <<"unexpected target arch ">> \o target_arch))

goarch_from_env ==
    LET r == get_env_var(ArchKey)
        target_arch == r.val
    IN  IF ~r.is_ok THEN r
        ELSE CASE target_arch = <<"x86">> -> ResOk(<<"386">>)
               [] target_arch = <<"x86_64">> -> ResOk(<<"amd64">>)
               [] target_arch = <<"powerpc64">> -> ResOk(<<"ppc64">>)
               [] target_arch = <<"aarch64">> -> ResOk(<<"arm64">>)
               [] target_arch \in {<<"mips">>, <<"mips64">>, <<"arm">>} -> ResOk(target_arch)
               [] OTHER -> ResErr(Error_new("InvalidGOARCH",
                                            <<"unexpected target arch ">> \o target_arch))

goos_from_env ==
    LET r == get_env_var(OsKey)
        target_os == r.val
    IN  IF ~r.is_ok THEN r
        ELSE CASE target_os = <<"macos">> -> ResOk(<<"darwin">>)
               [] target_os \in {<<"windows">>, <<"ios">>, <<"linux">>, <<"android">>,
                                 <<"freebsd">>, <<"dragonfly">>, <<"openbsd">>,
                                 <<"netbsd">>} -> ResOk(target_os)
               [] OTHER -> ResErr(Error_new("InvalidGOOS",
                                            <<"unexpected target os ">> \o target_os))

\* ------------------------------------------------- external compiler paths
get_cc == <<"cc">>
get_cxx == <<"c++">>

\* ---------------------------------------------------------- format_lib_name
format_lib_name(out) ==
    <<"lib">> \o out \o
    (IF build_mode = "CArchive"
     THEN (IF windows THEN <<".lib">> ELSE <<".a">>)
     ELSE (IF windows THEN <<".dll">> ELSE <<".so">>))

\* BuildMode's Display
BuildMode_to_string(m) == IF m = "CArchive" THEN "c-archive" ELSE "c-shared"

\* Path::join with a relative second path
MAIN_SEPARATOR == IF windows THEN "\\" ELSE "/"
Path_join(base, path) ==
    IF base = <<>> THEN path
    ELSE IF Last(base) \in {"/", MAIN_SEPARATOR} THEN base \o path
    ELSE base \o <<MAIN_SEPARATOR>> \o path

\* ------------------------------------------------ the go command (146-168)
CommandEnvs ==
    [CGO_ENABLED |-> <<"1">>, GOOS |-> Unwrap(goos), GOARCH |-> Unwrap(goarch),
     CC |-> get_cc, CXX |-> get_cxx]

\* CommandArgs with -ldflags pushed before -C
CommandArgs_ldflags_first ==
    LET out_path == Path_join(Unwrap(resolved_dir), format_lib_name(output))
        a1 == <<<<"build">>>>
        a2 == IF IsSome(ldflags) THEN a1 \o <<<<"-ldflags">>, Unwrap(ldflags)>> ELSE a1
        a3 == IF IsSome(change_dir) THEN a2 \o <<<<"-C">>, Unwrap(change_dir)>> ELSE a2
        a4 == IF trimpath THEN Append(a3, <<"-trimpath">>) ELSE a3
        a5 == a4 \o <<<<"-buildmode">>, <<BuildMode_to_string(build_mode)>>>>
        a6 == a5 \o <<<<"-o">>, out_path>>
    IN  a6 \o packages

CommandArgs ==
    LET out_path == Path_join(Unwrap(resolved_dir), format_lib_name(output))
        a1 == <<<<"build">>>>
        a2 == IF IsSome(change_dir) THEN a1 \o <<<<"-C">>, Unwrap(change_dir)>> ELSE a1
        a3 == IF IsSome(ldflags) THEN a2 \o <<<<"-ldflags">>, Unwrap(ldflags)>> ELSE a2
        a4 == IF trimpath THEN Append(a3, <<"-trimpath">>) ELSE a3
        a5 == a4 \o <<<<"-buildmode">>, <<BuildMode_to_string(build_mode)>>>>
        a6 == a5 \o <<<<"-o">>, out_path>>
    IN  a6 \o packages

Command == [program |-> <<"go">>, envs |-> CommandEnvs, args |-> CommandArgs]

\* ------------------------------------------------- the failure message text
from_utf8_lossy(bytes) ==
    [i \in 1..Len(bytes) |-> IF bytes[i] = InvalidByte THEN ReplacementChar ELSE bytes[i]]

RECURSIVE trim_start(_)
trim_start(s) ==
    IF s # <<>> /\ Head(s) \in Whitespace THEN trim_start(Tail(s)) ELSE s

RECURSIVE trim_end(_)
trim_end(s) ==
    IF s # <<>> /\ Last(s) \in Whitespace THEN trim_end(SubSeq(s, 1, Len(s) - 1)) ELSE s

trim(s) == trim_end(trim_start(s))

\* ExitStatus's Display
ExitStatus_display(code) ==
    IF windows THEN <<"exit code: ", ToString(code)>> ELSE <<"exit status: ", ToString(code)>>

ExitStatus_success(code) == code = 0

\* push_output testing the stream for emptiness before trimming it
push_output_untrimmed_test(message, stream_name, bytes) ==
    LET string == from_utf8_lossy(bytes)
    IN  IF string = <<>> THEN message
        ELSE message \o <<"\n=== ", stream_name, ":\n">> \o trim(string)

\* the closure push_output: message with the named stream's section appended
push_output(message, stream_name, bytes) ==
    LET string == trim(from_utf8_lossy(bytes))
    IN  IF string = <<>> THEN message
        ELSE message \o <<"\n=== ", stream_name, ":\n">> \o string

BuildFailedMessage(bo) ==
    LET m0 == <<"failed to build Go library (">> \o ExitStatus_display(bo.status)
              \o <<"). Build output:">>
        m1 == push_output(m0, "stdout", bo.stdout)
    IN  push_output(m1, "stderr", bo.stderr)

\* ------------------------------------------------------ the cargo metadata
\* link_kind as if every build mode produced an archive
link_kind_static_only == "static"

link_kind == IF build_mode = "CArchive" THEN "static" ELSE "dylib"

LinkLibDirective == <<"cargo:rustc-link-lib=", link_kind, "=">> \o output
LinkSearchDirective == <<"cargo:rustc-link-search=native=">> \o Unwrap(resolved_dir)

\* Metadata with the two println! lines exchanged
Metadata_search_first ==
    IF cargo_metadata THEN <<LinkSearchDirective, LinkLibDirective>> ELSE <<>>

\* what lines 180-187 print
Metadata == IF cargo_metadata THEN <<LinkLibDirective, LinkSearchDirective>> ELSE <<>>

\* ------------------------------------------------------- Build::try_build
\* the call: try_build(output)
TryBuild(o) ==
    /\ pc = "configured"
    /\ pc' = "goos_from_env"
    /\ output' = o
    /\ UNCHANGED <<buildVars, calls, env, windows, goos, goarch, resolved_dir, reads, cmd,
                   spawned, build_output, emitted, result>>

\* return Err(e) out of try_build
Fail(e) == pc' = "done" /\ result' = e

\* line 136 with the error dropped: goos_from_env().unwrap_or_default()
ReadGoos_unwrap_or_default ==
    /\ pc = "goos_from_env"
    /\ reads' = Append(reads, OsKey)
    /\ goos' = Some(goos_from_env.val)
    /\ pc' = "goarch_from_env"
    /\ UNCHANGED <<buildVars, calls, env, windows, output, goarch, resolved_dir, cmd, spawned,
                   build_output, emitted, result>>

\* line 136: let goos = goos_from_env()?
ReadGoos ==
    /\ pc = "goos_from_env"
    /\ reads' = Append(reads, OsKey)
    /\ LET r == goos_from_env
       IN  IF r.is_ok
           THEN goos' = Some(r.val) /\ pc' = "goarch_from_env" /\ UNCHANGED result
           ELSE Fail(r.err) /\ UNCHANGED goos
    /\ UNCHANGED <<buildVars, calls, env, windows, output, goarch, resolved_dir, cmd, spawned,
                   build_output, emitted>>

\* line 137: let goarch = goarch_from_env()?
ReadGoarch ==
    /\ pc = "goarch_from_env"
    /\ reads' = Append(reads, ArchKey)
    /\ LET r == goarch_from_env
       IN  IF r.is_ok
           THEN goarch' = Some(r.val) /\ pc' = "out_dir" /\ UNCHANGED result
           ELSE Fail(r.err) /\ UNCHANGED goarch
    /\ UNCHANGED <<buildVars, calls, env, windows, output, goos, resolved_dir, cmd, spawned,
                   build_output, emitted>>

\* lines 140-143 reading OUT_DIR before looking at the configured directory
ResolveOutDir_eager ==
    /\ pc = "out_dir"
    /\ reads' = Append(reads, OutDirKey)
    /\ LET r == get_env_var(OutDirKey)
       IN  IF r.is_ok
           THEN /\ resolved_dir' = (IF IsSome(out_dir) THEN out_dir ELSE Some(r.val))
                /\ pc' = "command"
                /\ UNCHANGED result
           ELSE Fail(r.err) /\ UNCHANGED resolved_dir
    /\ UNCHANGED <<buildVars, calls, env, windows, output, goos, goarch, cmd, spawned,
                   build_output, emitted>>

\* lines 140-143: the output directory, configured or from OUT_DIR
ResolveOutDir ==
    /\ pc = "out_dir"
    /\ IF IsSome(out_dir)
       THEN /\ resolved_dir' = out_dir
            /\ pc' = "command"
            /\ UNCHANGED <<reads, result>>
       ELSE /\ reads' = Append(reads, OutDirKey)
            /\ LET r == get_env_var(OutDirKey)
               IN  IF r.is_ok
                   THEN resolved_dir' = Some(r.val) /\ pc' = "command" /\ UNCHANGED result
                   ELSE Fail(r.err) /\ UNCHANGED resolved_dir
    /\ UNCHANGED <<buildVars, calls, env, windows, output, goos, goarch, cmd, spawned,
                   build_output, emitted>>

\* lines 146-178: cmd.output() cannot start the process
SpawnFails(err) ==
    /\ pc = "command"
    /\ cmd' = Some(Command)
    /\ Fail(Error_new("ToolExecError", <<"failed to execute go command: ">> \o err))
    /\ UNCHANGED <<buildVars, calls, env, windows, output, goos, goarch, resolved_dir, reads,
                   spawned, build_output, emitted>>

\* lines 146-170: cmd.output() starts the go process and waits for it
SpawnStarts ==
    /\ pc = "command"
    /\ cmd' = Some(Command)
    /\ spawned' = spawned + 1
    /\ pc' = "running"
    /\ UNCHANGED <<buildVars, calls, env, windows, output, goos, goarch, resolved_dir, reads,
                   build_output, emitted, result>>

\* lines 170-212 building again after a failed build
ChildExits_retry(status, stdout, stderr) ==
    /\ pc = "running"
    /\ build_output' = Some([status |-> status, stdout |-> stdout, stderr |-> stderr])
    /\ emitted' = emitted \o Metadata
    /\ IF ExitStatus_success(status)
       THEN pc' = "done" /\ result' = Ok
       ELSE pc' = "command" /\ UNCHANGED result
    /\ UNCHANGED <<buildVars, calls, env, windows, output, goos, goarch, resolved_dir, reads,
                   cmd, spawned>>

\* lines 170-212: the go process exits, cmd.output() returns Ok(build_output)
ChildExits(status, stdout, stderr) ==
    /\ pc = "running"
    /\ LET bo == [status |-> status, stdout |-> stdout, stderr |-> stderr]
       IN  /\ build_output' = Some(bo)
           /\ emitted' = emitted \o Metadata
           /\ result' = IF ExitStatus_success(status) THEN Ok
                        ELSE Error_new("ToolExecError", BuildFailedMessage(bo))
    /\ pc' = "done"
    /\ UNCHANGED <<buildVars, calls, env, windows, output, goos, goarch, resolved_dir, reads,
                   cmd, spawned>>

\* ------------------------------------------------------------ specifications
Envs(archs, oses, dirs) ==
    { [k \in EnvKeys |-> CASE k = ArchKey -> a [] k = OsKey -> o [] OTHER -> d] :
        a \in archs, o \in oses, d \in dirs }

\* the shortest sequence of setter calls that configures the Build as it is
CallsFor ==
    (IF build_mode # "CArchive" THEN <<Call("build_mode", build_mode)>> ELSE <<>>)
    \o (IF ~cargo_metadata THEN <<Call("cargo_metadata", cargo_metadata)>> ELSE <<>>)
    \o (IF IsSome(change_dir) THEN <<Call("change_dir", Unwrap(change_dir))>> ELSE <<>>)
    \o (IF IsSome(ldflags) THEN <<Call("ldflags", Unwrap(ldflags))>> ELSE <<>>)
    \o (IF IsSome(out_dir) THEN <<Call("out_dir", Unwrap(out_dir))>> ELSE <<>>)
    \o [i \in 1..Len(packages) |-> Call("package", packages[i])]
    \o (IF trimpath THEN <<Call("trimpath", trimpath)>> ELSE <<>>)

\* Spec: try_build on any configuration, in an environment that names one
\* target of each kind
Init ==
    /\ build_mode \in BuildModes
    /\ cargo_metadata \in BOOLEAN
    /\ change_dir \in Opt({<<"./tests/example">>})
    /\ ldflags \in Opt({<<"-s -w">>})
    /\ out_dir \in Opt(OutDirValues)
    /\ packages \in SeqsUpTo(PackageValues, MaxPkgs)
    /\ trimpath \in BOOLEAN
    /\ calls = CallsFor
    /\ env \in Envs({Some(<<"x86_64">>), Some(<<"riscv64">>)}, {Some(<<"macos">>), None},
                    Opt(EnvOutDirs))
    /\ windows \in BOOLEAN
    /\ NotStarted

Next ==
    \/ \E o \in OutputValues : TryBuild(o)
    \/ ReadGoos
    \/ ReadGoarch
    \/ ResolveOutDir
    \/ \E e \in SpawnErrors : SpawnFails(e)
    \/ SpawnStarts
    \/ \E status \in StatusCodes, stdout \in Streams, stderr \in Streams :
          ChildExits(status, stdout, stderr)

Spec == Init /\ [][Next]_vars

\* SpecEnv: try_build in any environment and with any child behaviour, on the
\* configurations that differ in build mode, metadata and output directory
InitEnv ==
    /\ build_mode \in BuildModes
    /\ cargo_metadata \in BOOLEAN
    /\ change_dir = None
    /\ ldflags = None
    /\ out_dir \in Opt({<<"/tmp/out">>})
    /\ packages = <<<<"main.go">>>>
    /\ trimpath = FALSE
    /\ calls = CallsFor
    /\ env \in Envs(Opt({<<a>> : a \in TableArchs \cup OtherArchs}),
                    Opt({<<o>> : o \in TableOses \cup OtherOses}),
                    Opt(EnvOutDirs))
    /\ windows \in BOOLEAN
    /\ NotStarted

SpecEnv == InitEnv /\ [][Next]_vars

\* SpecBuilder: setter calls on a Build created by new()
InitBuilder ==
    /\ Build_new
    /\ calls = <<>>
    /\ env \in Envs({Some(<<"x86_64">>)}, {Some(<<"linux">>)}, Opt(EnvOutDirs))
    /\ windows = FALSE
    /\ NotStarted

NextBuilder ==
    \/ DoBuildMode
    \/ DoCargoMetadata
    \/ DoChangeDir
    \/ DoLdflags
    \/ DoOutDir
    \/ DoPackage
    \/ DoTrimpath

SpecBuilder == InitBuilder /\ [][NextBuilder]_vars

\* ------------------------------------------------------------------ claims
Done == pc = "done"
Succeeded == Done /\ result.kind = "Ok"
Failed == Done /\ IsErr(result)
SearchPrefix == "cargo:rustc-link-search=native="
LibPrefix == "cargo:rustc-link-lib="
IsLinkLib(d) == d # <<>> /\ Head(d) = LibPrefix

\* C1: when try_build returns an error no cargo directive has been emitted by
\* the invocation, and with cargo_metadata false none is emitted whatever the
\* outcome.
C1_NoMetadataOnFailure ==
    /\ Failed => emitted = <<>>
    /\ ~cargo_metadata => emitted = <<>>

\* C2 as stated: a successful try_build with cargo_metadata enabled has emitted
\* exactly two directives, the search-path directive first and the link
\* directive second.
C2_SearchThenLink ==
    (Succeeded /\ cargo_metadata) =>
        /\ Len(emitted) = 2
        /\ emitted[1] = <<SearchPrefix>> \o Unwrap(resolved_dir)
        /\ \E kind \in {"static", "dynamic", "dylib"} :
              emitted[2] = <<LibPrefix, kind, "=">> \o output

\* C2 amended: a successful try_build with cargo_metadata enabled has emitted
\* exactly two directives, the link directive first and the search-path
\* directive, naming the output directory in use, second.
C2_LinkThenSearch ==
    (Succeeded /\ cargo_metadata) =>
        /\ Len(emitted) = 2
        /\ \E kind \in {"static", "dynamic", "dylib"} :
              emitted[1] = <<LibPrefix, kind, "=">> \o output
        /\ emitted[2] = <<SearchPrefix>> \o
                          (IF IsSome(out_dir) THEN Unwrap(out_dir) ELSE Unwrap(env[OutDirKey]))

C2_Witness ==
    /\ Succeeded
    /\ cargo_metadata
    /\ build_mode = "CShared"
    /\ out_dir = Some(<<"/tmp/out">>)
    /\ output = <<"example">>
    /\ Len(emitted) = 2

\* C3 as stated: every emitted link directive is
\* cargo:rustc-link-lib={kind}={output} with kind static for CArchive and
\* dynamic for CShared, and output the argument of try_build.
C3_KindStaticOrDynamic ==
    \A i \in 1..Len(emitted) :
        IsLinkLib(emitted[i]) =>
            emitted[i] = <<LibPrefix, IF build_mode = "CArchive" THEN "static" ELSE "dynamic",
                           "=">> \o output

\* C3 amended: every emitted link directive is
\* cargo:rustc-link-lib={kind}={output} with kind static for CArchive and
\* dylib for CShared, and output the argument of try_build.
C3_KindStaticOrDylib ==
    /\ \A i \in 1..Len(emitted) :
          IsLinkLib(emitted[i]) =>
              emitted[i] = <<LibPrefix, IF build_mode = "CArchive" THEN "static" ELSE "dylib",
                             "=">> \o output
    /\ (Succeeded /\ cargo_metadata) => \E i \in 1..Len(emitted) : IsLinkLib(emitted[i])

C3_Witness ==
    /\ Succeeded
    /\ build_mode = "CShared"
    /\ output = <<"integrationtest">>
    /\ \E i \in 1..Len(emitted) : IsLinkLib(emitted[i])

\* C4: the argument vector of the go command is build, then -C <dir> iff
\* change_dir is set, then -ldflags <flags> iff ldflags is set, then -trimpath
\* iff trimpath, then -buildmode and c-archive or c-shared, then -o and the
\* output path, then the packages in insertion order.
LibFileName ==
    <<"lib">> \o output \o
    << CASE build_mode = "CArchive" /\ windows -> ".lib"
         [] build_mode = "CArchive" /\ ~windows -> ".a"
         [] build_mode = "CShared" /\ windows -> ".dll"
         [] build_mode = "CShared" /\ ~windows -> ".so" >>

IsOutputPath(path) ==
    LET dir == IF IsSome(out_dir) THEN Unwrap(out_dir) ELSE Unwrap(env[OutDirKey])
        n == Len(path)
    IN  /\ n >= Len(dir) + Len(LibFileName)
        /\ n <= Len(dir) + Len(LibFileName) + 1
        /\ SubSeq(path, 1, Len(dir)) = dir
        /\ SubSeq(path, n - Len(LibFileName) + 1, n) = LibFileName
        /\ n = Len(dir) + Len(LibFileName) + 1 => path[Len(dir) + 1] \in {"/", "\\"}

C4_ArgumentOrder ==
    IsSome(cmd) =>
        LET a == Unwrap(cmd).args
            c == IF IsSome(change_dir) THEN 2 ELSE 0
            l == IF IsSome(ldflags) THEN 2 ELSE 0
            t == IF trimpath THEN 1 ELSE 0
            m == 1 + c + l + t
        IN  /\ Len(a) = m + 4 + Len(packages)
            /\ a[1] = <<"build">>
            /\ IsSome(change_dir) => a[2] = <<"-C">> /\ a[3] = Unwrap(change_dir)
            /\ IsSome(ldflags) => a[c + 2] = <<"-ldflags">> /\ a[c + 3] = Unwrap(ldflags)
            /\ trimpath => a[m] = <<"-trimpath">>
            /\ a[m + 1] = <<"-buildmode">>
            /\ a[m + 2] = <<IF build_mode = "CArchive" THEN "c-archive" ELSE "c-shared">>
            /\ a[m + 3] = <<"-o">>
            /\ IsOutputPath(a[m + 4])
            /\ \A i \in 1..Len(packages) : a[m + 4 + i] = packages[i]

C4_Witness ==
    /\ IsSome(cmd)
    /\ IsSome(change_dir)
    /\ IsSome(ldflags)
    /\ trimpath
    /\ Len(packages) = 2
    /\ packages[1] # packages[2]
    /\ Unwrap(cmd).args[2] = <<"-C">>

\* C5: each translator returns the tabulated value for a tabulated identifier
\* and fails with InvalidGOARCH or InvalidGOOS, the message holding the
\* identifier, for any other; the go command gets the translated values as
\* GOARCH and GOOS.
ArchTable ==
    { <<"x86", "386">>, <<"x86_64", "amd64">>, <<"powerpc64", "ppc64">>,
      <<"aarch64", "arm64">>, <<"mips", "mips">>, <<"mips64", "mips64">>, <<"arm", "arm">> }
OsTable ==
    { <<"macos", "darwin">>, <<"windows", "windows">>, <<"ios", "ios">>, <<"linux", "linux">>,
      <<"android", "android">>, <<"freebsd", "freebsd">>, <<"dragonfly", "dragonfly">>,
      <<"openbsd", "openbsd">>, <<"netbsd", "netbsd">> }
Tabulated(table, id) == \E row \in table : row[1] = id
Lookup(table, id) == (CHOOSE row \in table : row[1] = id)[2]
EnvId(key) == Unwrap(env[key])[1]
HasRead(key) == \E i \in 1..Len(reads) : reads[i] = key
\* the read of key has been made and try_build has moved on or returned
Looked(key, at) == HasRead(key) /\ pc # at

C5_Translation ==
    /\ (Looked(ArchKey, "goarch_from_env") /\ IsSome(env[ArchKey])) =>
          IF Tabulated(ArchTable, EnvId(ArchKey))
          THEN goarch = Some(<<Lookup(ArchTable, EnvId(ArchKey))>>)
          ELSE /\ goarch = None
               /\ result.kind = "InvalidGOARCH"
               /\ Contains(result.message, <<EnvId(ArchKey)>>)
    /\ (Looked(OsKey, "goos_from_env") /\ IsSome(env[OsKey])) =>
          IF Tabulated(OsTable, EnvId(OsKey))
          THEN goos = Some(<<Lookup(OsTable, EnvId(OsKey))>>)
          ELSE /\ goos = None
               /\ result.kind = "InvalidGOOS"
               /\ Contains(result.message, <<EnvId(OsKey)>>)
    /\ IsSome(cmd) =>
          /\ Unwrap(cmd).envs.GOARCH = <<Lookup(ArchTable, EnvId(ArchKey))>>
          /\ Unwrap(cmd).envs.GOOS = <<Lookup(OsTable, EnvId(OsKey))>>

C5_Witness ==
    /\ IsSome(cmd)
    /\ env[ArchKey] = Some(<<"aarch64">>)
    /\ env[OsKey] = Some(<<"macos">>)
    /\ Unwrap(cmd).envs.GOARCH = <<"arm64">>
    /\ Unwrap(cmd).envs.GOOS = <<"darwin">>

\* C6 as stated: whenever a required variable (CARGO_CFG_TARGET_ARCH,
\* CARGO_CFG_TARGET_OS, and OUT_DIR when no out_dir is configured) is absent,
\* try_build fails with EnvVarNotFound naming an absent key; OUT_DIR is never
\* read when out_dir is configured; and an absent CARGO_CFG_TARGET_ARCH gives
\* EnvVarNotFound naming CARGO_CFG_TARGET_ARCH whatever the other variables.
Required == {ArchKey, OsKey} \cup (IF IsSome(out_dir) THEN {} ELSE {OutDirKey})
Names(key) == result.kind = "EnvVarNotFound" /\ Contains(result.message, <<key>>)

C6_AbsentVarNamed ==
    /\ Done =>
          /\ (\E k \in Required : env[k] = None) =>
                \E k \in Required : env[k] = None /\ Names(k)
          /\ env[ArchKey] = None => Names(ArchKey)
    /\ IsSome(out_dir) => ~HasRead(OutDirKey)

\* C6 amended: try_build reads CARGO_CFG_TARGET_OS, then CARGO_CFG_TARGET_ARCH,
\* then OUT_DIR (only when no out_dir is configured) and stops at the first
\* failure.  Every EnvVarNotFound names an absent required key, and only the
\* keys read may be named; with out_dir configured OUT_DIR is never read.  An
\* absent CARGO_CFG_TARGET_OS gives EnvVarNotFound naming it whatever the other
\* variables; an absent CARGO_CFG_TARGET_ARCH gives EnvVarNotFound naming it
\* when CARGO_CFG_TARGET_OS is present and recognized; an absent required
\* OUT_DIR gives EnvVarNotFound naming it when both targets are recognized.
Recognized(table, key) == IsSome(env[key]) /\ Tabulated(table, EnvId(key))

C6_FirstAbsentVarNamed ==
    /\ Done =>
          /\ result.kind = "EnvVarNotFound" =>
                \E k \in Required : env[k] = None /\ Names(k) /\ Last(reads) = k
          /\ env[OsKey] = None => Names(OsKey)
          /\ (env[ArchKey] = None /\ Recognized(OsTable, OsKey)) => Names(ArchKey)
          /\ (env[OutDirKey] = None /\ OutDirKey \in Required
                /\ Recognized(OsTable, OsKey) /\ Recognized(ArchTable, ArchKey))
                => Names(OutDirKey)
    /\ IsSome(out_dir) => ~HasRead(OutDirKey)
    /\ (IsSome(out_dir) /\ Done /\ Recognized(OsTable, OsKey)
          /\ Recognized(ArchTable, ArchKey)) => result.kind \in {"Ok", "ToolExecError"}

C6_Witness ==
    /\ Done
    /\ env[ArchKey] = None
    /\ env[OsKey] = Some(<<"linux">>)
    /\ env[OutDirKey] = None
    /\ Names(ArchKey)

\* C7: when the go process exits with nonzero status try_build returns
\* ToolExecError; the message is a header naming the exit status, then a stdout
\* section iff stdout is not blank, then a stderr section iff stderr is not
\* blank, each section holding the stream's text without its surrounding
\* whitespace (the text is the stream decoded as UTF-8, an invalid byte shown
\* as U+FFFD).
Blank(text) == \A i \in 1..Len(text) : text[i] \in Whitespace
Inner(text) ==
    LET solid == {i \in 1..Len(text) : text[i] \notin Whitespace}
        first == CHOOSE i \in solid : \A j \in solid : i <= j
        last == CHOOSE i \in solid : \A j \in solid : j <= i
    IN  SubSeq(text, first, last)
Section(name, bytes) ==
    LET text == from_utf8_lossy(bytes)
    IN  IF Blank(text) THEN <<>> ELSE <<"\n=== ", name, ":\n">> \o Inner(text)
IsHeader(h, status) ==
    /\ Len(h) = 4
    /\ h[1] = "failed to build Go library ("
    /\ h[2] \in {"exit status: ", "exit code: "}
    /\ h[3] = ToString(status)
    /\ h[4] = "). Build output:"

CallsOf(setter) == SelectSeq(calls, LAMBDA c : c.setter = setter)
LastArg(setter, default) ==
    IF CallsOf(setter) = <<>> THEN default ELSE Last(CallsOf(setter)).arg
LastSome(setter) ==
    IF CallsOf(setter) = <<>> THEN None ELSE Some(Last(CallsOf(setter)).arg)

C8_LastSetterWins ==
    /\ build_mode = LastArg("build_mode", "CArchive")
    /\ cargo_metadata = LastArg("cargo_metadata", TRUE)
    /\ change_dir = LastSome("change_dir")
    /\ ldflags = LastSome("ldflags")
    /\ out_dir = LastSome("out_dir")
    /\ trimpath = LastArg("trimpath", FALSE)
    /\ packages = [i \in 1..Len(CallsOf("package")) |-> CallsOf("package")[i].arg]
    /\ NotStarted

C8_Witness ==
    /\ Len(calls) = 4
    /\ calls[1].setter = "package"
    /\ calls[2].setter = "ldflags"
    /\ calls[3].setter = "package"
    /\ calls[4].setter = "ldflags"
    /\ calls[1].arg # calls[3].arg
    /\ calls[2].arg # calls[4].arg
    /\ packages = <<calls[1].arg, calls[3].arg>>
    /\ ldflags = Some(calls[4].arg)

\* C9 as stated: the architecture lookup comes before the OS lookup and the
\* first failure ends the invocation: the OS variable is not read when the
\* architecture lookup fails, and with both targets unrecognized try_build
\* fails with InvalidGOARCH.
Unrecognized(table, key) == IsSome(env[key]) /\ ~Tabulated(table, EnvId(key))

C9_ArchFirst ==
    /\ reads # <<>> => reads[1] = ArchKey
    /\ (Done /\ Unrecognized(ArchTable, ArchKey) /\ Unrecognized(OsTable, OsKey))
          => result.kind = "InvalidGOARCH"
    /\ result.kind = "InvalidGOARCH" => ~HasRead(OsKey)

\* C9 amended: the OS lookup comes before the architecture lookup and the
\* first failure ends the invocation: the architecture variable is not read
\* when the OS lookup fails, the reported error is the OS one, so with both
\* targets unrecognized try_build fails with InvalidGOOS; one error is reported
\* per invocation (a result, once set, never changes).
C9_OsFirst ==
    /\ [](/\ reads # <<>> => reads[1] = OsKey
          /\ HasRead(ArchKey) => Recognized(OsTable, OsKey)
          /\ (HasRead(OsKey) /\ ~Recognized(OsTable, OsKey)) =>
                /\ Done
                /\ reads = <<OsKey>>
                /\ goarch = None
                /\ result.kind = (IF env[OsKey] = None THEN "EnvVarNotFound"
                                  ELSE "InvalidGOOS")
          /\ (Done /\ Unrecognized(ArchTable, ArchKey) /\ Unrecognized(OsTable, OsKey))
                => result.kind = "InvalidGOOS")
    /\ [][result # NoResult => result' = result]_vars

C9_Witness ==
    /\ Done
    /\ Unrecognized(ArchTable, ArchKey)
    /\ Unrecognized(OsTable, OsKey)
    /\ result.kind = "InvalidGOOS"
    /\ reads = <<OsKey>>

\* C10: an invocation moves Configured -> Translating -> Invoking without going
\* back and ends in one terminal state, Succeeded or Failed(kind) with kind one
\* of the four error kinds; nothing leaves a terminal state; the go process is
\* started at most once, and only after both translations and the output
\* directory are in hand.
Phase ==
    CASE pc = "configured" -> 0
      [] pc \in {"goos_from_env", "goarch_from_env", "out_dir"} -> 1
      [] pc \in {"command", "running"} -> 2
      [] pc = "done" -> 3

C10_LinearStateMachine ==
    /\ [](/\ pc \in {"configured", "goos_from_env", "goarch_from_env", "out_dir",
                      "command", "running", "done"}
          /\ Done <=> result # NoResult
          /\ Done => (result.kind = "Ok" \/ result.kind \in ErrorKinds)
          /\ spawned <= 1
          /\ spawned = 1 =>
                /\ Phase >= 2
                /\ IsSome(goos) /\ IsSome(goarch) /\ IsSome(resolved_dir)
                /\ IsSome(cmd)
          /\ result.kind = "Ok" => spawned = 1)
    /\ [][ /\ ~Done
           /\ Phase' >= Phase
           /\ Phase' # 3 => Phase' <= Phase + 1
           /\ spawned' # spawned => (Phase = 2 /\ Phase' = 2) ]_vars

C10_Witness ==
    /\ Done
    /\ spawned = 1
    /\ result.kind = "ToolExecError"
    /\ IsSome(build_output)

====
